---------------------------- MODULE Spec2Model ----------------------------
(***************************************************************************)
(* Webhook signature protocol of wordgate-sdk (src/webhook.md).            *)
(*                                                                         *)
(* A sender signs a request body with generateSignature and puts the       *)
(* result in the X-Webhook-Signature header; the request travels over a    *)
(* network that may alter it; the receiver runs verifySignature on what    *)
(* arrives.                                                                *)
(*                                                                         *)
(* Strings and byte slices are sequences of one-character strings, so      *)
(* that Split, HasPrefix, TrimPrefix, ParseInt and FormatInt are computed  *)
(* character by character as the Go library computes them.  HMAC-SHA256    *)
(* is the ideal keyed hash: the hex digest of (key, message) is a single   *)
(* sequence element that names both, so two digests are equal exactly      *)
(* when key and message are equal (no collisions), and a digest contains   *)
(* neither ',' nor '=' and is never a decimal integer.                     *)
(***************************************************************************)
EXTENDS Integers, Sequences, FiniteSets, TLC

(***************************************************************************)
(* Bounds of the model.                                                    *)
(***************************************************************************)
\* Longest request body, in bytes.
MaxBodyLen == 1
\* Clock readings in a day; the clock of the membership calls reads
\* 0 .. MaxClock; a call extends by 1 .. MaxDays days; no call starts once
\* the membership ends on day MaxEndDay or later.
DayLen == 2
MaxClock == 3
MaxDays == 2
MaxEndDay == 4
\* The sender's clock reads MinTimestamp .. MaxTimestamp, or DefaultMaxAge.
MaxTimestamp == 2
\* The receiver's clock reads 0 .. MaxNow, or that much past the age limit.
MaxNow == 2

(***************************************************************************)
(* Program constants.                                                      *)
(***************************************************************************)
\* "if now-timestamp > 300": the five-minute window, the maxAge argument of
\* wordgate.VerifySignature(signature, body, secret, 300).
DefaultMaxAge == 300

\* Unix times before the epoch are negative.
MinTimestamp == 0 - 1

\* Sender clock readings: around the epoch, and one of several digits that
\* lies ahead of, or a few seconds behind, the receiver's clock.
Timestamps == (MinTimestamp..MaxTimestamp) \cup {DefaultMaxAge}

NowValues == (0..MaxNow) \cup {DefaultMaxAge + k : k \in 0..MaxNow}

\* maxAge values a receiver passes: no tolerance, and five minutes.
MaxAges == {0, DefaultMaxAge}

\* Request bodies: a run of the byte 'a', and the same run with its last
\* byte flipped to 'b'.
Bodies ==
    LET run(n) == [i \in 1..n |-> "a"]
    IN  {run(n) : n \in 0..MaxBodyLen}
            \cup {[run(n) EXCEPT ![n] = "b"] : n \in 1..MaxBodyLen}

\* Shared secrets: two different ones, and the empty secret (not rejected).
Secrets == {<<>>, <<"k">>, <<"w">>}

(***************************************************************************)
(* strings, strconv                                                        *)
(***************************************************************************)
DigitChars == <<"0", "1", "2", "3", "4", "5", "6", "7", "8", "9">>

IsDigit(c) == \E d \in 1..10 : DigitChars[d] = c

DigitVal(c) == (CHOOSE d \in 1..10 : DigitChars[d] = c) - 1

\* strings.HasPrefix
HasPrefix(s, prefix) ==
    /\ Len(s) >= Len(prefix)
    /\ SubSeq(s, 1, Len(prefix)) = prefix

\* strings.TrimPrefix
TrimPrefix(s, prefix) ==
    IF HasPrefix(s, prefix) THEN SubSeq(s, Len(prefix) + 1, Len(s)) ELSE s

\* strings.Split(s, sep) for a one-character separator: n separators give
\* n + 1 parts, empty parts included.
RECURSIVE Split(_, _)
Split(s, sep) ==
    IF \A i \in 1..Len(s) : s[i] # sep THEN <<s>>
    ELSE LET i == CHOOSE j \in 1..Len(s) :
                     s[j] = sep /\ \A k \in 1..(j - 1) : s[k] # sep
         IN  <<SubSeq(s, 1, i - 1)>> \o Split(SubSeq(s, i + 1, Len(s)), sep)

RECURSIVE FormatNat(_)
FormatNat(n) ==
    IF n < 10 THEN <<DigitChars[n + 1]>>
    ELSE Append(FormatNat(n \div 10), DigitChars[(n % 10) + 1])

\* strconv.FormatInt(n, 10): no leading zeros, '-' for a negative number.
FormatInt(n) == IF n < 0 THEN <<"-">> \o FormatNat(0 - n) ELSE FormatNat(n)

RECURSIVE DigitsValue(_)
DigitsValue(ds) ==
    IF ds = <<>> THEN 0
    ELSE 10 * DigitsValue(SubSeq(ds, 1, Len(ds) - 1)) + DigitVal(ds[Len(ds)])

\* strconv.ParseInt(s, 10, 64): an optional sign, then one or more decimal
\* digits; anything else is a syntax error and the value returned is 0.
\* (A digit string past the int64 range returns the nearest int64; the
\* strings of this model are far shorter than that.)
ParseInt(s) ==
    LET signed == s # <<>> /\ s[1] \in {"+", "-"}
        ds     == IF signed THEN Tail(s) ELSE s
    IN  IF ds = <<>> \/ \E i \in 1..Len(ds) : ~IsDigit(ds[i])
        THEN [val |-> 0, err |-> TRUE]
        ELSE [val |-> IF signed /\ s[1] = "-" THEN 0 - DigitsValue(ds)
                      ELSE DigitsValue(ds),
              err |-> FALSE]

(***************************************************************************)
(* crypto/hmac, crypto/sha256, encoding/hex                                *)
(***************************************************************************)
RECURSIVE Flat(_)
Flat(s) == IF s = <<>> THEN "" ELSE Head(s) \o Flat(Tail(s))

\* A digest that does not depend on the key.
HmacSha256Hex_NoKey(key, message) == <<"hmac:" \o "|" \o Flat(message)>>

\* hex.EncodeToString(hmac.New(sha256.New, key).Write(message).Sum(nil)):
\* the 64 lowercase hex characters of the digest, as one element.  Keys
\* hold no '|', so the element determines key and message.
HmacSha256Hex(key, message) == <<"hmac:" \o Flat(key) \o "|" \o Flat(message)>>

\* hmac.Equal: true exactly when the two byte slices have the same length
\* and the same bytes (the time it takes is not modelled).
HmacEqual(mac1, mac2) == mac1 = mac2

(***************************************************************************)
(* The sender: generateSignature                                           *)
(***************************************************************************)
PrefixT == <<"t", "=">>

PrefixSha256 == <<"s", "h", "a", "2", "5", "6", "=">>

\* A signing input that leaves the body out.
SigningMessage_NoBody(timestamp, body) == FormatInt(timestamp) \o <<".">>

\* A signing input without the '.' between timestamp and body.
SigningMessage_NoDot(timestamp, body) == FormatInt(timestamp) \o body

\* message := strconv.FormatInt(timestamp, 10) + "." + string(body)
SigningMessage(timestamp, body) == FormatInt(timestamp) \o <<".">> \o body

\* A signer that gives no signature when the secret is empty.
Sign_NoEmptySecret(timestamp, body, secret) ==
    IF secret = <<>> THEN <<>>
    ELSE HmacSha256Hex(secret, SigningMessage(timestamp, body))

\* The signature over (timestamp, body) under secret.
Sign(timestamp, body, secret) ==
    HmacSha256Hex(secret, SigningMessage(timestamp, body))

\* A header written "t=%d, sha256=%s", with a blank after the comma.
FormatHeader_SpaceAfterComma(timestamp, signature) ==
    PrefixT \o FormatInt(timestamp) \o <<",", " ">> \o PrefixSha256 \o signature

\* fmt.Sprintf("t=%d,sha256=%s", timestamp, signature)
FormatHeader(timestamp, signature) ==
    PrefixT \o FormatInt(timestamp) \o <<",">> \o PrefixSha256 \o signature

\* generateSignature(body, secret), timestamp being the sender's
\* time.Now().Unix().
BuildHeader(timestamp, body, secret) ==
    FormatHeader(timestamp, Sign(timestamp, body, secret))

(***************************************************************************)
(* The receiver: verifySignature                                           *)
(***************************************************************************)
Nil == "nil"
MalformedHeader == "invalid signature header format"
Expired == "timestamp too old"
SignatureMismatch == "signature verification failed"

\* One pass of "for _, part := range parts": a t= part sets timestamp to
\* what ParseInt returns, its error dropped; a sha256= part sets signature;
\* any other part is skipped.
ParsePart(parsed, part) ==
    IF HasPrefix(part, PrefixT)
    THEN [parsed EXCEPT !.timestamp = ParseInt(TrimPrefix(part, PrefixT)).val]
    ELSE IF HasPrefix(part, PrefixSha256)
         THEN [parsed EXCEPT !.signature = TrimPrefix(part, PrefixSha256)]
         ELSE parsed

RECURSIVE ParseParts(_, _)
ParseParts(parsed, parts) ==
    IF parts = <<>> THEN parsed
    ELSE ParseParts(ParsePart(parsed, Head(parts)), Tail(parts))

\* A parse that takes the first part for the timestamp and the second for
\* the signature, whatever the other holds.
ParseHeader_FixedOrder(parts) ==
    [timestamp |-> IF Len(parts) >= 1 /\ HasPrefix(parts[1], PrefixT)
                   THEN ParseInt(TrimPrefix(parts[1], PrefixT)).val
                   ELSE 0,
     signature |-> IF Len(parts) >= 2 /\ HasPrefix(parts[2], PrefixSha256)
                   THEN TrimPrefix(parts[2], PrefixSha256)
                   ELSE <<>>]

\* "var timestamp int64; var signature string", then the loop.
ParseHeader(parts) == ParseParts([timestamp |-> 0, signature |-> <<>>], parts)

\* A window that shuts one second early.
TooOld_Inclusive(now, timestamp, maxAge) == now - timestamp >= maxAge

\* A window that is closed on both sides.
TooOld_Symmetric(now, timestamp, maxAge) ==
    \/ now - timestamp > maxAge
    \/ timestamp - now > maxAge

\* "if now-timestamp > 300"
TooOld(now, timestamp, maxAge) == now - timestamp > maxAge

\* verifySignature(headerValue, body, secret) at clock reading now, the
\* age limit a parameter as in wordgate.VerifySignature.  err is the error
\* returned; hmacs counts the HMAC computations made on the way.
VerifySignature(headerValue, body, secret, maxAge, now) ==
    LET parts == Split(headerValue, ",")
    IN  IF Len(parts) # 2
        THEN [err |-> MalformedHeader, hmacs |-> 0]
        ELSE LET parsed == ParseHeader(parts)
             IN  IF TooOld(now, parsed.timestamp, maxAge)
                 THEN [err |-> Expired, hmacs |-> 0]
                 ELSE IF ~HmacEqual(parsed.signature,
                                    Sign(parsed.timestamp, body, secret))
                      THEN [err |-> SignatureMismatch, hmacs |-> 1]
                      ELSE [err |-> Nil, hmacs |-> 1]

(***************************************************************************)
(* The request in flight                                                   *)
(***************************************************************************)
\* strings.Join(parts, ","), the inverse of Split.
RECURSIVE Join(_)
Join(parts) ==
    IF Len(parts) = 0 THEN <<>>
    ELSE IF Len(parts) = 1 THEN parts[1]
         ELSE parts[1] \o <<",">> \o Join(Tail(parts))

\* Fields a header can be given in place of one of its own: empty, a
\* timestamp that is empty, not a number, zero or after a blank, an
\* unknown key, a signature that is empty or not the digest.
JunkFields ==
    { <<>>,
      <<"t", "=">>,
      <<"t", "=", "x">>,
      <<"t", "=", "0">>,
      <<" ", "t", "=", "1">>,
      <<"v", "=", "1">>,
      <<"s", "h", "a", "2", "5", "6", "=">>,
      <<"s", "h", "a", "2", "5", "6", "=", "a", "b">> }

VARIABLES
    now,      \* the receiver's time.Now().Unix()
    pc,       \* "idle", "inflight" (sent, not yet verified), "verified",
              \* "responded" or "redelivered" (sent again, not yet verified)
    header,   \* the X-Webhook-Signature value of the request
    body,     \* the request body
    edited,   \* whether the request was altered in flight
    sent,     \* what the sender signed: its clock reading, body and secret
    call,     \* the last verifySignature call on the request
    prev,     \* the call before it on the same request, if it was redelivered
    resp,     \* what handleWebhook answered to the request
    epc,      \* the event handler: "none", "received", "decoded" or "failed"
    doc,      \* the JSON document the event handler received
    event,    \* the WebhookEventData the document was decoded into
    derr,     \* the error of that decoding
    parse     \* the last Parse call on the envelope

sigVars == <<now, pc, header, body, edited, sent, call, prev, resp>>

envVars == <<epc, doc, event, derr, parse>>

\* Calls in progress on the goroutines of a process.
VARIABLES
    calls,      \* per goroutine: the call it runs, its arguments and result
    mac,        \* the hash.Hash values made by hmac.New
    jsonBytes   \* the byte slices made by json.Marshal in Parse

procVars == <<calls, mac, jsonBytes>>

\* A call of the API client.
VARIABLES
    apc,        \* "idle", "answered" (the server's answer is there) or "returned"
    response,   \* what c.request and io.ReadAll give: error, status, body
    outcome     \* what requestJSON and the client method returned

cliVars == <<apc, response, outcome>>

\* A user's membership on the server and the ExtendUserMembership calls.
VARIABLES
    clock,      \* time.Now()
    member,     \* the server's record of the user's current membership
    ext         \* per goroutine: the ExtendUserMembership call it runs

memVars == <<clock, member, ext>>

\* A call of a helper function.
VARIABLES
    fn          \* the function called, its arguments and its result

fnVars == <<fn>>

extVars == <<procVars, cliVars, memVars, fnVars>>

vars == <<sigVars, envVars, extVars>>

NoneSent == [timestamp |-> 0, body |-> <<>>, secret |-> <<>>]

NoCall == [secret |-> <<>>, maxAge |-> 0, at |-> 0, err |-> "", hmacs |-> 0]

NoPrev == [secret |-> <<>>, maxAge |-> 0, err |-> ""]

NoResp == [status |-> 0, processed |-> FALSE]

(***************************************************************************)
(* encoding/json values.  A JSON value has a kind k ("null", "bool",       *)
(* "num", "str" or "obj") and, by kind, a truth value b, an integer n, a   *)
(* string s, or fields f (a function from member names to JSON values).    *)
(***************************************************************************)
NoFields == [name \in {} |-> 0]

JNull ==
    [k |-> "null", b |-> FALSE, hi |-> 0, n |-> 0, s |-> "", f |-> NoFields]

JBool(b) == [JNull EXCEPT !.k = "bool", !.b = b]

JNum(n) == [JNull EXCEPT !.k = "num", !.n = n]

\* The number 2^53 + n, for 0 <= n < 2^53: hi counts the 2^53.
JBig(n) == [JNull EXCEPT !.k = "num", !.hi = 1, !.n = n]

JStr(s) == [JNull EXCEPT !.k = "str", !.s = s]

JObj(f) == [JNull EXCEPT !.k = "obj", !.f = f]

\* The zero value of WebhookEventData; a nil Data is JSON null.
ZeroEvent == [EventType |-> "", AppID |-> 0, Data |-> JNull, Timestamp |-> 0]

NoDoc == [syntax |-> "none", value |-> JNull]

NoParse == [shape |-> "", err |-> "", out |-> NoFields, failed |-> FALSE]

\* The goroutines of the model.
Procs == {1, 2}

NoInput ==
    [timestamp |-> 0, header |-> <<>>, body |-> <<>>, secret |-> <<>>,
     w |-> ZeroEvent, shape |-> ""]

NoResult == [err |-> "", value |-> <<>>, out |-> NoFields]

IdleCall ==
    [pc |-> "idle", kind |-> "", in |-> NoInput, res |-> NoResult,
     overlap |-> FALSE]

NoMac == [key |-> <<>>, data |-> <<>>]

\* A Go error value: its dynamic type ("nil" for no error), the text put
\* before a wrapped error, the Code and Message of the APIError it is or
\* wraps, and the dynamic type of the error it wraps.
NoErr == [type |-> "nil", text |-> "", code |-> 0, message |-> "", cause |-> ""]

NoResponse == [transport |-> "", status |-> 0, body |-> NoDoc]

\* requestJSON's error and what it left in *result; the method's pointer
\* (nil or not, and the struct it points to) and error.
NoOutcome ==
    [method |-> "", err |-> NoErr, written |-> NoFields,
     ptr |-> [isNil |-> TRUE, value |-> NoFields], reterr |-> NoErr]

\* An ExtendUserMembership call: its durationDays, the step it failed at,
\* the membership GetUser returned, the time.Now() it read, its request
\* and the number of SetUserMembership requests it sent.
IdleExt ==
    [pc |-> "idle", days |-> 0, err |-> "", current |-> FALSE,
     endDate |-> 0, now |-> 0, request |-> [StartDate |-> 0, EndDate |-> 0],
     sent |-> 0]

\* A call of the period helpers on one period type (its months and its
\* name), or two generateSignature calls under one secret (their inputs,
\* signing messages and signatures).
NoFn ==
    [name |-> "", arg |-> "", months |-> 0, text |-> "", inputs |-> <<>>,
     messages |-> <<>>, signatures |-> <<>>]

\* No call is in progress; the user has no membership.
ExtIdle ==
    /\ calls = [p \in Procs |-> IdleCall]
    /\ mac = [p \in Procs |-> NoMac]
    /\ jsonBytes = [p \in Procs |-> NoDoc]
    /\ apc = "idle"
    /\ response = NoResponse
    /\ outcome = NoOutcome
    /\ clock = 0
    /\ member = [current |-> FALSE, endDate |-> 0]
    /\ ext = [p \in Procs |-> IdleExt]
    /\ fn = NoFn

EnvIdle ==
    /\ epc = "none"
    /\ doc = NoDoc
    /\ event = ZeroEvent
    /\ derr = ""
    /\ parse = NoParse

Init ==
    /\ now \in NowValues
    /\ pc = "idle"
    /\ header = <<>>
    /\ body = <<>>
    /\ edited = FALSE
    /\ sent = NoneSent
    /\ call = NoCall
    /\ prev = NoPrev
    /\ resp = NoResp
    /\ EnvIdle
    /\ ExtIdle

\* The sender signs body b under secret s at its clock reading ts and
\* sends it.
Send(ts, b, s) ==
    /\ pc = "idle"
    /\ pc' = "inflight"
    /\ header' = BuildHeader(ts, b, s)
    /\ body' = b
    /\ sent' = [timestamp |-> ts, body |-> b, secret |-> s]
    /\ UNCHANGED <<now, edited, call, prev, resp>>
    /\ UNCHANGED <<envVars, extVars>>

Alter(h, b) ==
    /\ pc = "inflight"
    /\ ~edited
    /\ edited' = TRUE
    /\ header' = h
    /\ body' = b
    /\ UNCHANGED <<now, pc, sent, call, prev, resp>>
    /\ UNCHANGED <<envVars, extVars>>

\* The body is replaced on the way, the header kept.
TamperBody(b) ==
    /\ b # body
    /\ Alter(header, b)

\* The two fields of the header change places.
SwapFields ==
    LET parts == Split(header, ",")
    IN  /\ Len(parts) = 2
        /\ Alter(Join(<<parts[2], parts[1]>>), body)

\* One field of the header is lost.
DropField(i) ==
    LET parts == Split(header, ",")
    IN  /\ i \in 1..Len(parts)
        /\ Alter(Join(SubSeq(parts, 1, i - 1) \o SubSeq(parts, i + 1, Len(parts))),
                 body)

\* A field is added after the header's own.
AddField(f) ==
    LET parts == Split(header, ",")
    IN  /\ Len(parts) < 3
        /\ Alter(Join(Append(parts, f)), body)

\* One field of the header is replaced.
ReplaceField(i, f) ==
    LET parts == Split(header, ",")
    IN  /\ i \in 1..Len(parts)
        /\ Alter(Join([parts EXCEPT ![i] = f]), body)

\* One field of the header loses its "t=" or "sha256=" prefix.
StripPrefix(i) ==
    LET parts == Split(header, ",")
    IN  /\ i \in 1..Len(parts)
        /\ Alter(Join([parts EXCEPT
                          ![i] = TrimPrefix(TrimPrefix(parts[i], PrefixT),
                                            PrefixSha256)]),
                 body)

\* A request delivered again meets the receiver it met before: the same
\* secret and the same age limit.
SameReceiver(s, m) ==
    pc = "redelivered" => (s = prev.secret /\ m = prev.maxAge)

\* The receiver calls verifySignature on the request as it arrived, with
\* its secret s and age limit m; call.at is the clock reading of the call.
Verify(s, m) ==
    /\ pc \in {"inflight", "redelivered"}
    /\ SameReceiver(s, m)
    /\ pc' = "verified"
    /\ LET r == VerifySignature(header, body, s, m, now)
       IN  call' = [secret |-> s, maxAge |-> m, at |-> now,
                    err |-> r.err, hmacs |-> r.hmacs]
    /\ UNCHANGED <<now, header, body, edited, sent, prev, resp>>
    /\ UNCHANGED <<envVars, extVars>>

\* The request is done with.
Finish ==
    /\ pc \in {"verified", "responded"}
    /\ pc' = "idle"
    /\ header' = <<>>
    /\ body' = <<>>
    /\ edited' = FALSE
    /\ sent' = NoneSent
    /\ call' = NoCall
    /\ prev' = NoPrev
    /\ resp' = NoResp
    /\ UNCHANGED now
    /\ UNCHANGED <<envVars, extVars>>

\* The same request, header and body as they arrived, is delivered again
\* after the receiver dealt with it (a retry by the sender, or a replay).
\* prev keeps the configuration and the outcome of the call just made.
Redeliver ==
    /\ pc \in {"verified", "responded"}
    /\ pc' = "redelivered"
    /\ prev' = [secret |-> call.secret, maxAge |-> call.maxAge,
                err |-> call.err]
    /\ call' = NoCall
    /\ resp' = NoResp
    /\ UNCHANGED <<now, header, body, edited, sent>>
    /\ UNCHANGED <<envVars, extVars>>

\* Time passes between calls: the clock never runs backwards.
Tick(n) ==
    /\ pc \in {"idle", "inflight", "redelivered"}
    /\ n > now
    /\ now' = n
    /\ UNCHANGED <<pc, header, body, edited, sent, call, prev, resp>>
    /\ UNCHANGED <<envVars, extVars>>

Next ==
    \/ \E ts \in Timestamps, b \in Bodies, s \in Secrets : Send(ts, b, s)
    \/ \E b \in Bodies : TamperBody(b)
    \/ SwapFields
    \/ \E i \in 1..2 : DropField(i)
    \/ \E f \in JunkFields : AddField(f)
    \/ \E i \in 1..2, f \in JunkFields : ReplaceField(i, f)
    \/ \E i \in 1..2 : StripPrefix(i)
    \/ \E s \in Secrets, m \in MaxAges : Verify(s, m)
    \/ Finish
    \/ \E n \in NowValues : Tick(n)

Spec == Init /\ [][Next]_vars

(***************************************************************************)
(* The receiving service: handleWebhook (SDK example of src/webhook.md)    *)
(***************************************************************************)
StatusOK == 200

StatusBadRequest == 400

StatusUnauthorized == 401

StatusRequestTimeout == 408

\* handleWebhook without the return that follows http.Error.
HandlerResponse_NoReturn(err) ==
    IF err # Nil
    THEN [status |-> StatusUnauthorized, processed |-> TRUE]
    ELSE [status |-> StatusOK, processed |-> TRUE]

\* What handleWebhook does with the error VerifySignature returned: on any
\* error it answers 401 and returns; otherwise it decodes the event, runs
\* the business logic and answers 200.
HandlerResponse(err) ==
    IF err # Nil
    THEN [status |-> StatusUnauthorized, processed |-> FALSE]
    ELSE [status |-> StatusOK, processed |-> TRUE]

\* One run of handleWebhook on the request as it arrived, in a service
\* configured with secret s: it reads the header and the body, calls
\* VerifySignature with an age limit of 300 seconds and answers.
HandleWebhook(s) ==
    /\ pc \in {"inflight", "redelivered"}
    /\ SameReceiver(s, DefaultMaxAge)
    /\ pc' = "responded"
    /\ LET r == VerifySignature(header, body, s, DefaultMaxAge, now)
       IN  /\ call' = [secret |-> s, maxAge |-> DefaultMaxAge, at |-> now,
                       err |-> r.err, hmacs |-> r.hmacs]
           /\ resp' = HandlerResponse(r.err)
    /\ UNCHANGED <<now, header, body, edited, sent, prev>>
    /\ UNCHANGED <<envVars, extVars>>

\* Requests that may be delivered more than once, to a receiver that calls
\* VerifySignature itself or runs handleWebhook.
NextHandler ==
    \/ \E ts \in Timestamps, b \in Bodies, s \in Secrets : Send(ts, b, s)
    \/ \E b \in Bodies : TamperBody(b)
    \/ \E i \in 1..2 : DropField(i)
    \/ \E s \in Secrets, m \in MaxAges : Verify(s, m)
    \/ \E s \in Secrets : HandleWebhook(s)
    \/ Redeliver
    \/ Finish
    \/ \E n \in NowValues : Tick(n)

SpecHandler == Init /\ [][NextHandler]_vars

(***************************************************************************)
(* encoding/json: Unmarshal into a struct.  A struct type is a function    *)
(* from the json tags of its fields to their Go types; a struct value is   *)
(* a function from the tags to the JSON values the fields encode to.       *)
(***************************************************************************)
SyntaxError == "json: invalid character"

UnmarshalTypeError == "json: cannot unmarshal"

MarshalFailed == "failed to marshal event data"

\* A Go value json.Marshal has no encoding for (a channel, a function).
Unsupported == [JNull EXCEPT !.k = "chan"]

\* The strings time.Time.UnmarshalJSON accepts, among those of the model.
RFC3339Strings == {"2024-12-16T02:18:00Z", "2025-12-31T00:00:00Z"}

\* Whether Unmarshal can store the JSON value v in a Go value of type t.
\* null is stored in anything: it sets a pointer or interface to nil and
\* leaves any other value alone.
Fits(v, t) ==
    \/ v.k = "null"
    \/ t = "any"
    \/ t = "string" /\ v.k = "str"
    \/ t = "bool" /\ v.k = "bool"
    \/ t \in {"int", "int64"} /\ v.k = "num"
    \/ t = "uint64" /\ v.k = "num" /\ v.n >= 0
    \/ t \in {"time.Time", "*time.Time"} /\ v.k = "str" /\ v.s \in RFC3339Strings

\* The float64 nearest to a number (strconv.ParseFloat), which is what a
\* JSON number becomes in an interface{}.  Integers below 2^53 are exact;
\* from 2^53 to 2^54 the float64 values are the even integers, and a number
\* halfway between two of them goes to the one with the even mantissa.
Float64(v) ==
    IF v.hi = 0 THEN v
    ELSE LET q == v.n \div 2
         IN  IF v.n % 2 = 0 THEN v
             ELSE IF q % 2 = 0 THEN [v EXCEPT !.n = 2 * q]
             ELSE [v EXCEPT !.n = 2 * (q + 1)]

\* The value Unmarshal stores in an interface{}: numbers as float64,
\* objects as map[string]interface{}.
RECURSIVE ToInterface(_)
ToInterface(v) ==
    CASE v.k = "num" -> Float64(v)
      [] v.k = "obj" ->
             [v EXCEPT !.f = [name \in DOMAIN v.f |-> ToInterface(v.f[name])]]
      [] OTHER -> v

\* What Unmarshal stores in a field of type t for the JSON value v.
Stored(v, t) == IF t = "any" THEN ToInterface(v) ELSE v

\* The zero value of a Go type, as the JSON value it encodes to.
Zero(t) ==
    CASE t = "string" -> JStr("")
      [] t = "bool" -> JBool(FALSE)
      [] t \in {"int", "int64", "uint64"} -> JNum(0)
      [] t = "time.Time" -> JStr("0001-01-01T00:00:00Z")
      [] OTHER -> JNull

ZeroStruct(fields) == [name \in DOMAIN fields |-> Zero(fields[name])]

\* Unmarshal with Decoder.DisallowUnknownFields: a member of the object
\* that names no field of the struct is an error.
UnmarshalStruct_DisallowUnknownFields(v, fields) ==
    IF v.k = "null" THEN [err |-> Nil, out |-> ZeroStruct(fields)]
    ELSE IF v.k # "obj"
    THEN [err |-> UnmarshalTypeError, out |-> ZeroStruct(fields)]
    ELSE LET present == DOMAIN fields \cap DOMAIN v.f
             bad == {name \in present : ~Fits(v.f[name], fields[name])}
         IN  [err |-> IF bad = {} /\ DOMAIN v.f \subseteq DOMAIN fields
                      THEN Nil ELSE UnmarshalTypeError,
              out |-> [name \in DOMAIN fields |->
                          IF name \in present \ bad /\ v.f[name].k # "null"
                          THEN Stored(v.f[name], fields[name])
                          ELSE Zero(fields[name])]]

\* Unmarshal with every member of the object required.
UnmarshalStruct_AllRequired(v, fields) ==
    IF v.k # "obj"
    THEN [err |-> UnmarshalTypeError, out |-> ZeroStruct(fields)]
    ELSE LET present == DOMAIN fields \cap DOMAIN v.f
             bad == {name \in present : ~Fits(v.f[name], fields[name])}
         IN  [err |-> IF bad = {} /\ DOMAIN fields \subseteq DOMAIN v.f
                      THEN Nil ELSE UnmarshalTypeError,
              out |-> [name \in DOMAIN fields |->
                          IF name \in present \ bad /\ v.f[name].k # "null"
                          THEN Stored(v.f[name], fields[name])
                          ELSE Zero(fields[name])]]

\* json.Unmarshal of the JSON value v into a zero struct with the given
\* fields.  null is a no-op; any other value that is not an object is an
\* error.  Of an object, the members that name a field are stored in it
\* when they fit and are an error otherwise (decoding goes on, the first
\* error is returned at the end); members that name no field are skipped
\* and fields without a member keep their zero value.
UnmarshalStruct(v, fields) ==
    IF v.k = "null" THEN [err |-> Nil, out |-> ZeroStruct(fields)]
    ELSE IF v.k # "obj"
    THEN [err |-> UnmarshalTypeError, out |-> ZeroStruct(fields)]
    ELSE LET present == DOMAIN fields \cap DOMAIN v.f
             bad == {name \in present : ~Fits(v.f[name], fields[name])}
         IN  [err |-> IF bad = {} THEN Nil ELSE UnmarshalTypeError,
              out |-> [name \in DOMAIN fields |->
                          IF name \in present \ bad /\ v.f[name].k # "null"
                          THEN Stored(v.f[name], fields[name])
                          ELSE Zero(fields[name])]]

\* json.Unmarshal / Decoder.Decode of a document: text that is not JSON is
\* a syntax error.
Unmarshal(d, fields) ==
    IF d.syntax # "ok"
    THEN [err |-> SyntaxError, out |-> ZeroStruct(fields)]
    ELSE UnmarshalStruct(d.value, fields)

\* json.Marshal of a value held in an interface: a float64 that is an
\* integer below 1e21 is written in full, without exponent, and the other
\* values as the JSON they came from.
Marshal(v) ==
    IF v.k = "chan"
    THEN [err |-> "json: unsupported type", doc |-> NoDoc]
    ELSE [err |-> Nil, doc |-> [syntax |-> "ok", value |-> v]]

(***************************************************************************)
(* The event envelope (src/webhook.go)                                     *)
(***************************************************************************)
WebhookEventOrderPaid == "order.paid"

WebhookEventOrderCancelled == "order.cancelled"

WebhookEventMembershipActivated == "membership.activated"

WebhookEventTypes ==
    {WebhookEventOrderPaid, WebhookEventOrderCancelled,
     WebhookEventMembershipActivated}

\* WebhookEventType is a string type.
WebhookEventData ==
    [event_type |-> "string", app_id |-> "uint64", data |-> "any",
     timestamp |-> "int64"]

WebhookOrderPaidData ==
    [wordgate_order_no |-> "string", amount |-> "int64",
     currency |-> "string", is_paid |-> "bool", paid_at |-> "*time.Time",
     app_id |-> "uint64"]

WebhookOrderCancelledData ==
    [wordgate_order_no |-> "string", amount |-> "int64",
     currency |-> "string", cancelled_at |-> "*time.Time",
     app_id |-> "uint64", reason |-> "string"]

WebhookMembershipActivatedData ==
    [user_id |-> "uint64", tier_code |-> "string", expires_at |-> "string",
     app_id |-> "uint64"]

\* The payload structs a caller can hand to Parse, by name.
PayloadShapes ==
    [WebhookOrderPaidData |-> WebhookOrderPaidData,
     WebhookOrderCancelledData |-> WebhookOrderCancelledData,
     WebhookMembershipActivatedData |-> WebhookMembershipActivatedData]

\* The payload struct that belongs to an event type.
ShapeOf(eventType) ==
    CASE eventType = WebhookEventOrderPaid -> "WebhookOrderPaidData"
      [] eventType = WebhookEventOrderCancelled -> "WebhookOrderCancelledData"
      [] eventType = WebhookEventMembershipActivated ->
             "WebhookMembershipActivatedData"
      [] OTHER -> ""

\* The decoded struct as a WebhookEventData value.
EventOf(out) ==
    [EventType |-> out.event_type.s, AppID |-> out.app_id.n,
     Data |-> out.data, Timestamp |-> out.timestamp.n]

\* A decoder that refuses event types it has no constant for.
DecodeEnvelope_KnownTypesOnly(d) ==
    LET r == Unmarshal(d, WebhookEventData)
    IN  [err |-> IF r.err = Nil /\ r.out.event_type.s \notin WebhookEventTypes
                 THEN UnmarshalTypeError ELSE r.err,
         event |-> EventOf(r.out)]

\* json.NewDecoder(r.Body).Decode(&webhookEvent), or
\* json.Unmarshal(body, &event): the outer decode.
DecodeEnvelope(d) ==
    LET r == Unmarshal(d, WebhookEventData)
    IN  [err |-> r.err, event |-> EventOf(r.out)]

\* A Parse that hands the data over: w.Data is nil after the call.
Parse_TakesData(w, shape) ==
    LET m == Marshal(w.Data)
    IN  IF m.err # Nil
        THEN [err |-> MarshalFailed, w |-> [w EXCEPT !.Data = JNull],
              out |-> ZeroStruct(PayloadShapes[shape])]
        ELSE LET r == Unmarshal(m.doc, PayloadShapes[shape])
             IN  [err |-> r.err, w |-> [w EXCEPT !.Data = JNull],
                  out |-> r.out]

\* (w *WebhookEventData) Parse(target): marshal w.Data, unmarshal the
\* bytes into target (a zero struct of the named shape).  w is the
\* envelope after the call.
Parse(w, shape) ==
    LET m == Marshal(w.Data)
    IN  IF m.err # Nil
        THEN [err |-> MarshalFailed, w |-> w,
              out |-> ZeroStruct(PayloadShapes[shape])]
        ELSE LET r == Unmarshal(m.doc, PayloadShapes[shape])
             IN  [err |-> r.err, w |-> w, out |-> r.out]

(***************************************************************************)
(* Event documents and the event handler (usage example of webhook.go)     *)
(***************************************************************************)
\* The mark of a member the object does not have.
Absent == [JNull EXCEPT !.k = "absent"]

OrderPaidWire ==
    JObj([wordgate_order_no |-> JStr("ORDER123"), amount |-> JNum(9900),
          currency |-> JStr("USD"), is_paid |-> JBool(TRUE),
          paid_at |-> JStr("2024-12-16T02:18:00Z"), app_id |-> JNum(1)])

OrderCancelledWire ==
    JObj([wordgate_order_no |-> JStr("ORDER123"), amount |-> JNum(9900),
          currency |-> JStr("USD"), cancelled_at |-> JNull,
          app_id |-> JNum(1), reason |-> JStr("timeout")])

MembershipActivatedWire ==
    JObj([user_id |-> JNum(42), tier_code |-> JStr("pro"),
          expires_at |-> JStr("2025-12-31T00:00:00Z"), app_id |-> JNum(1)])

\* A membership payload whose user id, 2^53 + 1, is no float64.
BigUserWire ==
    JObj([user_id |-> JBig(1), tier_code |-> JStr("pro"),
          expires_at |-> JStr("2025-12-31T00:00:00Z"), app_id |-> JBig(2)])

\* An order payload with a reason that is a number and a cancelled_at
\* that is no time: it fits WebhookOrderPaidData, which has neither field,
\* and not WebhookOrderCancelledData.
MistypedWire ==
    JObj([wordgate_order_no |-> JStr("ORDER123"), amount |-> JNum(9900),
          currency |-> JStr("USD"), reason |-> JNum(5),
          cancelled_at |-> JStr("yesterday")])

EventTypeValues ==
    {Absent, JStr(WebhookEventOrderPaid), JStr(WebhookEventOrderCancelled),
     JStr(WebhookEventMembershipActivated), JStr("refund.created"), JNum(7)}

AppIDValues == {Absent, JNum(1), JNum(0 - 1), JStr("1")}

TimestampValues == {Absent, JNum(1734315480)}

DataValues ==
    {Absent, JNull, OrderPaidWire, OrderCancelledWire,
     MembershipActivatedWire, BigUserWire, MistypedWire, JStr("ORDER123")}

ExtraValues == {Absent, JStr("v2")}

\* The JSON object with the members that are not Absent.
Members(all) == [name \in {n \in DOMAIN all : all[n] # Absent} |-> all[name]]

\* The request bodies of the model: text that is not JSON, JSON values that
\* are not objects, and objects with or without each envelope member, with
\* values of the right and of the wrong type, and a member the envelope
\* has no field for.
Documents ==
    {[syntax |-> "bad", value |-> JNull], [syntax |-> "ok", value |-> JNull],
     [syntax |-> "ok", value |-> JNum(7)]}
    \cup
    {[syntax |-> "ok",
      value |-> JObj(Members([event_type |-> et, app_id |-> ai, data |-> da,
                              timestamp |-> ts, version |-> ex]))] :
        et \in EventTypeValues, ai \in AppIDValues, da \in DataValues,
        ts \in TimestampValues, ex \in ExtraValues}

\* A request body arrives.
Receive(d) ==
    /\ epc = "none"
    /\ epc' = "received"
    /\ doc' = d
    /\ UNCHANGED <<event, derr, parse>>
    /\ UNCHANGED <<sigVars, extVars>>

\* The caller decodes the body into a WebhookEventData.
Decode ==
    /\ epc = "received"
    /\ LET r == DecodeEnvelope(doc)
       IN  /\ event' = r.event
           /\ derr' = r.err
           /\ epc' = IF r.err = Nil THEN "decoded" ELSE "failed"
    /\ UNCHANGED <<doc, parse>>
    /\ UNCHANGED <<sigVars, extVars>>

\* The caller calls Parse on the decoded envelope with a target of the
\* named shape; parse.failed tells whether an earlier Parse on this
\* envelope returned an error.
ParseData(shape) ==
    /\ epc = "decoded"
    /\ LET r == Parse(event, shape)
       IN  /\ event' = r.w
           /\ parse' = [shape |-> shape, err |-> r.err, out |-> r.out,
                        failed |-> parse.failed \/ parse.err \notin {"", Nil}]
    /\ UNCHANGED <<epc, doc, derr>>
    /\ UNCHANGED <<sigVars, extVars>>

\* The usage example's handleWebhook on a request body d: decode the
\* envelope (400 on error), switch on the event type, Parse the data of an
\* order.paid or order.cancelled event into its struct (400 on error) and
\* handle it, answer 200.
ExampleHandler(d) ==
    LET dec == DecodeEnvelope(d)
        r == Parse(dec.event, ShapeOf(dec.event.EventType))
    IN  IF dec.err # Nil
        THEN [event |-> dec.event, derr |-> dec.err, parse |-> NoParse,
              resp |-> [status |-> StatusBadRequest, processed |-> FALSE]]
        ELSE IF dec.event.EventType \in
                    {WebhookEventOrderPaid, WebhookEventOrderCancelled}
        THEN [event |-> r.w, derr |-> dec.err,
              parse |-> [shape |-> ShapeOf(dec.event.EventType),
                         err |-> r.err, out |-> r.out, failed |-> FALSE],
              resp |-> IF r.err # Nil
                       THEN [status |-> StatusBadRequest, processed |-> FALSE]
                       ELSE [status |-> StatusOK, processed |-> TRUE]]
        ELSE [event |-> dec.event, derr |-> dec.err, parse |-> NoParse,
              resp |-> [status |-> StatusOK, processed |-> FALSE]]

\* One run of the usage example's handleWebhook on the body received.
HandleWebhookEvent ==
    /\ epc = "received"
    /\ epc' = "handled"
    /\ LET h == ExampleHandler(doc)
       IN  /\ event' = h.event
           /\ derr' = h.derr
           /\ parse' = h.parse
           /\ resp' = h.resp
    /\ UNCHANGED doc
    /\ UNCHANGED <<now, pc, header, body, edited, sent, call, prev>>
    /\ UNCHANGED extVars

\* The body is done with.
Done ==
    /\ epc \in {"decoded", "failed", "handled"}
    /\ epc' = "none"
    /\ doc' = NoDoc
    /\ event' = ZeroEvent
    /\ derr' = ""
    /\ parse' = NoParse
    /\ resp' = NoResp
    /\ UNCHANGED <<now, pc, header, body, edited, sent, call, prev>>
    /\ UNCHANGED extVars

InitEnvelope == Init /\ now = 0

\* Bodies decoded and parsed by a caller, or handled by the usage
\* example's handler.
NextEnvelope ==
    \/ \E d \in Documents : Receive(d)
    \/ Decode
    \/ \E shape \in DOMAIN PayloadShapes : ParseData(shape)
    \/ HandleWebhookEvent
    \/ Done

SpecEnvelope == InitEnvelope /\ [][NextEnvelope]_vars

(***************************************************************************)
(* Concurrent calls.  Each goroutine runs one call of generateSignature,   *)
(* verifySignature or Parse at a time, statement by statement; the         *)
(* statements of different goroutines interleave.                          *)
(***************************************************************************)
SignInputs ==
    {[NoInput EXCEPT !.timestamp = ts, !.body = b, !.secret = s] :
        ts \in {1}, b \in {<<>>, <<"a">>}, s \in {<<"k">>, <<"w">>}}

VerifyInputs ==
    {[NoInput EXCEPT !.header = h, !.body = b, !.secret = s] :
        h \in {BuildHeader(0, <<"a">>, <<"k">>), BuildHeader(1, <<"a">>, <<"k">>),
               PrefixT},
        b \in {<<"a">>}, s \in {<<"k">>, <<"w">>}}

ParseInputs ==
    {[NoInput EXCEPT !.w = [ZeroEvent EXCEPT !.Data = d], !.shape = shape] :
        d \in {OrderPaidWire, MistypedWire},
        shape \in {"WebhookOrderPaidData", "WebhookOrderCancelledData"}}

\* Every goroutine's hmac.New makes one hash.Hash for all of them.
MacSlot_Shared(p) == 1

\* mac := hmac.New(...) makes a new hash.Hash, local to the call.
MacSlot(p) == p

\* jsonBytes, err := json.Marshal(w.Data) makes a new slice, local to the
\* call.
BufSlot(p) == p

\* Another goroutine is in the middle of a call.
Overlaps(p) == \E q \in Procs \ {p} : calls[q].pc \notin {"idle", "done"}

\* Goroutine p goes on to stage pc with result res.
Step(p, stage, res) ==
    calls' = [calls EXCEPT ![p].pc = stage, ![p].res = res,
                           ![p].overlap = @ \/ Overlaps(p)]

\* The timestamp the call signs with: the caller's for generateSignature,
\* the one parsed from the header for verifySignature.
MacTimestamp(c) ==
    IF c.kind = "sign" THEN c.in.timestamp
    ELSE ParseHeader(Split(c.in.header, ",")).timestamp

\* A goroutine starts a call.
Call(p, kind, in) ==
    /\ calls[p].pc = "idle"
    /\ calls' = [calls EXCEPT ![p] =
           [IdleCall EXCEPT !.kind = kind, !.in = in,
                            !.pc = CASE kind = "sign" -> "new"
                                     [] kind = "verify" -> "check"
                                     [] kind = "parse" -> "marshal"]]
    /\ UNCHANGED <<mac, jsonBytes>>
    /\ UNCHANGED <<sigVars, envVars, cliVars, memVars, fnVars>>

\* verifySignature up to the age test.
CheckHeader(p) ==
    LET c == calls[p]
        parts == Split(c.in.header, ",")
    IN  /\ c.pc = "check"
        /\ IF Len(parts) # 2
           THEN Step(p, "done", [NoResult EXCEPT !.err = MalformedHeader])
           ELSE IF TooOld(now, ParseHeader(parts).timestamp, DefaultMaxAge)
           THEN Step(p, "done", [NoResult EXCEPT !.err = Expired])
           ELSE Step(p, "new", NoResult)
        /\ UNCHANGED <<mac, jsonBytes>>
        /\ UNCHANGED <<sigVars, envVars, cliVars, memVars, fnVars>>

\* mac := hmac.New(sha256.New, []byte(secret))
NewMac(p) ==
    /\ calls[p].pc = "new"
    /\ mac' = [mac EXCEPT ![MacSlot(p)] =
                  [key |-> calls[p].in.secret, data |-> <<>>]]
    /\ Step(p, "write", NoResult)
    /\ UNCHANGED jsonBytes
    /\ UNCHANGED <<sigVars, envVars, cliVars, memVars, fnVars>>

\* mac.Write([]byte(message))
WriteMac(p) ==
    /\ calls[p].pc = "write"
    /\ mac' = [mac EXCEPT ![MacSlot(p)].data =
                  @ \o SigningMessage(MacTimestamp(calls[p]), calls[p].in.body)]
    /\ Step(p, "sum", NoResult)
    /\ UNCHANGED jsonBytes
    /\ UNCHANGED <<sigVars, envVars, cliVars, memVars, fnVars>>

\* hex.EncodeToString(mac.Sum(nil)) and the return: the header for
\* generateSignature, the comparison for verifySignature.
SumMac(p) ==
    LET c == calls[p]
        m == mac[MacSlot(p)]
        digest == HmacSha256Hex(m.key, m.data)
    IN  /\ c.pc = "sum"
        /\ IF c.kind = "sign"
           THEN Step(p, "done",
                     [NoResult EXCEPT !.err = Nil,
                          !.value = FormatHeader(c.in.timestamp, digest)])
           ELSE Step(p, "done",
                     [NoResult EXCEPT !.err =
                          IF HmacEqual(
                                 ParseHeader(Split(c.in.header, ",")).signature,
                                 digest)
                          THEN Nil ELSE SignatureMismatch])
        /\ UNCHANGED <<mac, jsonBytes>>
        /\ UNCHANGED <<sigVars, envVars, cliVars, memVars, fnVars>>

\* jsonBytes, err := json.Marshal(w.Data)
MarshalData(p) ==
    LET m == Marshal(calls[p].in.w.Data)
    IN  /\ calls[p].pc = "marshal"
        /\ IF m.err # Nil
           THEN /\ Step(p, "done", [NoResult EXCEPT !.err = MarshalFailed])
                /\ UNCHANGED jsonBytes
           ELSE /\ Step(p, "unmarshal", NoResult)
                /\ jsonBytes' = [jsonBytes EXCEPT ![BufSlot(p)] = m.doc]
        /\ UNCHANGED mac
        /\ UNCHANGED <<sigVars, envVars, cliVars, memVars, fnVars>>

\* return json.Unmarshal(jsonBytes, target)
UnmarshalData(p) ==
    LET r == Unmarshal(jsonBytes[BufSlot(p)], PayloadShapes[calls[p].in.shape])
    IN  /\ calls[p].pc = "unmarshal"
        /\ Step(p, "done", [NoResult EXCEPT !.err = r.err, !.out = r.out])
        /\ UNCHANGED <<mac, jsonBytes>>
        /\ UNCHANGED <<sigVars, envVars, cliVars, memVars, fnVars>>

\* The caller has the result and the call's local values are gone; the
\* goroutine is free for another call.
Return(p) ==
    /\ calls[p].pc = "done"
    /\ calls' = [calls EXCEPT ![p] = IdleCall]
    /\ mac' = [mac EXCEPT ![MacSlot(p)] = NoMac]
    /\ jsonBytes' = [jsonBytes EXCEPT ![BufSlot(p)] = NoDoc]
    /\ UNCHANGED <<sigVars, envVars, cliVars, memVars, fnVars>>

\* The clock reads one second past the age limit of a header stamped 0.
InitConcurrent == Init /\ now = DefaultMaxAge + 1

NextConcurrent ==
    \E p \in Procs :
        \/ \E in \in SignInputs : Call(p, "sign", in)
        \/ \E in \in VerifyInputs : Call(p, "verify", in)
        \/ \E in \in ParseInputs : Call(p, "parse", in)
        \/ CheckHeader(p)
        \/ NewMac(p)
        \/ WriteMac(p)
        \/ SumMac(p)
        \/ MarshalData(p)
        \/ UnmarshalData(p)
        \/ Return(p)

SpecConcurrent == InitConcurrent /\ [][NextConcurrent]_vars

(***************************************************************************)
(* The API client: requestJSON and the methods built on it (client.go,     *)
(* order.go)                                                               *)
(***************************************************************************)
APIResponse == [code |-> "int", data |-> "any", msg |-> "string"]

APIError == [code |-> "int", message |-> "string"]

OrderResponse ==
    [order_no |-> "string", amount |-> "int64", currency |-> "string",
     is_paid |-> "bool", paid_at |-> "*time.Time", pay_url |-> "string",
     redirect_url |-> "string"]

\* ProductStatus is a string type.
Product ==
    [id |-> "uint64", app_id |-> "uint64", code |-> "string",
     name |-> "string", price |-> "int64", status |-> "string",
     require_address |-> "bool", version |-> "int",
     created_at |-> "time.Time", updated_at |-> "time.Time",
     deleted_at |-> "*time.Time"]

\* The result structs of the client methods of the model, by name.
ResultTypes == [OrderResponse |-> OrderResponse, Product |-> Product]

\* An APIError value.
APIErrorValue(code, message) ==
    [NoErr EXCEPT !.type = "APIError", !.code = code, !.message = message]

\* fmt.Errorf(text + ": %w", err): a *fmt.wrapError around err.
Errorf(text, err) ==
    [type |-> "*fmt.wrapError", text |-> text, code |-> err.code,
     message |-> err.message, cause |-> err.type]

\* fmt.Errorf without %w, and the errors of net/http, io and encoding/json.
OtherError(type, text) == [NoErr EXCEPT !.type = type, !.text = text]

\* An envelope code is an error when it is positive.
CodeFailed_Positive(code) == code > 0

\* if apiResp.Code != 0
CodeFailed(code) == code # 0

\* requestJSON(method, path, body, result) on the server's answer r;
\* result names the struct result points to, "" for a nil result.
\* written is what the call left in *result.
RequestJSON(r, result) ==
    LET zero == IF result = "" THEN NoFields ELSE ZeroStruct(ResultTypes[result])
        asError == Unmarshal(r.body, APIError)
        apiResp == Unmarshal(r.body, APIResponse)
        data == Marshal(apiResp.out.data)
        decoded == Unmarshal(data.doc, ResultTypes[result])
    IN  IF r.transport = "send failed"
        THEN [err |-> Errorf("failed to send HTTP request",
                             OtherError("*url.Error", "")),
              written |-> zero]
        ELSE IF r.transport = "read failed"
        THEN [err |-> Errorf("failed to read response body",
                             OtherError("*net.OpError", "")),
              written |-> zero]
        ELSE IF r.status # StatusOK
        THEN [err |-> IF asError.err = Nil /\ asError.out.message.s # ""
                      THEN APIErrorValue(asError.out.code.n,
                                         asError.out.message.s)
                      ELSE OtherError("*errors.errorString", "HTTP"),
              written |-> zero]
        ELSE IF apiResp.err # Nil
        THEN [err |-> Errorf("failed to parse API response",
                             OtherError("json", apiResp.err)),
              written |-> zero]
        ELSE IF CodeFailed(apiResp.out.code.n)
        THEN [err |-> APIErrorValue(apiResp.out.code.n, apiResp.out.msg.s),
              written |-> zero]
        ELSE IF result # "" /\ apiResp.out.data.k # "null"
        THEN IF data.err # Nil
             THEN [err |-> Errorf("failed to marshal API data",
                                  OtherError("json", data.err)),
                   written |-> zero]
             ELSE IF decoded.err # Nil
             THEN [err |-> Errorf("failed to unmarshal API data",
                                  OtherError("json", decoded.err)),
                   written |-> decoded.out]
             ELSE [err |-> NoErr, written |-> decoded.out]
        ELSE [err |-> NoErr, written |-> zero]

\* A method that returns &result whatever requestJSON returned.
MethodReturn_KeepsResult(j, text) ==
    [ptr |-> [isNil |-> FALSE, value |-> j.written],
     reterr |-> IF j.err # NoErr THEN Errorf(text, j.err) ELSE NoErr]

\* The end of every method that returns (*T, error):
\*   if err != nil { return nil, fmt.Errorf(text + ": %w", err) }
\*   return &result, nil
MethodReturn(j, text) ==
    IF j.err # NoErr
    THEN [ptr |-> [isNil |-> TRUE, value |-> NoFields],
          reterr |-> Errorf(text, j.err)]
    ELSE [ptr |-> [isNil |-> FALSE, value |-> j.written], reterr |-> NoErr]

\* The data of a created order, and one whose amount is a string.
OrderWire ==
    JObj([order_no |-> JStr("ORDER123"), amount |-> JNum(9900),
          currency |-> JStr("USD"), is_paid |-> JBool(FALSE),
          pay_url |-> JStr("https://pay.example.com/ORDER123")])

MistypedOrderWire ==
    JObj([order_no |-> JStr("ORDER123"), amount |-> JStr("99.00"),
          currency |-> JStr("USD")])

\* The server's answers of the model: a request that fails to be sent, a
\* body that fails to be read, and the statuses 200, 400 and 401 with a
\* body that is not JSON, is no object, or is an object with or without
\* each member of the success envelope and of the error body.
Responses ==
    {[NoResponse EXCEPT !.transport = t] : t \in {"send failed", "read failed"}}
    \cup
    {[transport |-> "ok", status |-> st, body |-> d] :
        st \in {StatusOK, StatusBadRequest, StatusUnauthorized},
        d \in {[syntax |-> "bad", value |-> JNull],
               [syntax |-> "ok", value |-> JNull],
               [syntax |-> "ok", value |-> JStr("Bad Gateway")]}
              \cup
              {[syntax |-> "ok",
                value |-> JObj(Members([code |-> co, data |-> da, msg |-> ms,
                                        message |-> me]))] :
                  co \in {Absent, JNum(0), JNum(409), JNum(0 - 1), JStr("409")},
                  da \in {Absent, JNull, OrderWire, MistypedOrderWire,
                          JStr("ORDER123")},
                  ms \in {Absent, JStr("conflict")},
                  me \in {Absent, JStr(""), JStr("conflict")}}}

\* The server answers the request of the method about to be called.
Answer(r) ==
    /\ apc = "idle"
    /\ apc' = "answered"
    /\ response' = r
    /\ UNCHANGED <<outcome,
                   sigVars, envVars, procVars, memVars, fnVars>>

\* CreateOrder: var result OrderResponse; requestJSON(..., &result); return.
CreateOrder ==
    LET j == RequestJSON(response, "OrderResponse")
        ret == MethodReturn(j, "failed to create order")
    IN  /\ apc = "answered"
        /\ apc' = "returned"
        /\ outcome' = [method |-> "CreateOrder", err |-> j.err,
                       written |-> j.written, ptr |-> ret.ptr,
                       reterr |-> ret.reterr]
        /\ UNCHANGED <<response,
                       sigVars, envVars, procVars, memVars, fnVars>>

\* CreateProduct: var result Product; requestJSON(..., &result); return.
CreateProduct ==
    LET j == RequestJSON(response, "Product")
        ret == MethodReturn(j, "failed to create product")
    IN  /\ apc = "answered"
        /\ apc' = "returned"
        /\ outcome' = [method |-> "CreateProduct", err |-> j.err,
                       written |-> j.written, ptr |-> ret.ptr,
                       reterr |-> ret.reterr]
        /\ UNCHANGED <<response,
                       sigVars, envVars, procVars, memVars, fnVars>>

\* The caller is done with what the method returned.
NextRequest ==
    /\ apc = "returned"
    /\ apc' = "idle"
    /\ response' = NoResponse
    /\ outcome' = NoOutcome
    /\ UNCHANGED <<sigVars, envVars, procVars, memVars, fnVars>>

NextClient ==
    \/ \E r \in Responses : Answer(r)
    \/ CreateOrder
    \/ CreateProduct
    \/ NextRequest

SpecClient == InitEnvelope /\ [][NextClient]_vars

(***************************************************************************)
(* ExtendUserMembership (src/unnamed/part_000).  Times are clock readings, *)
(* DayLen to a day, all in one time zone; a date is the number of its day. *)
(***************************************************************************)
\* t.Format("2006-01-02"): the date of t.
Format(t) == t \div DayLen

\* t.AddDate(0, 0, days)
AddDate(t, days) == t + days * DayLen

\* The start date is always time.Now().
StartDate_FromNow(e, t) == t

\* The start date of the extension for what GetUser returned, at time t:
\* the current end date if the membership is still active, else t.
StartDate(e, t) == IF e.current /\ e.endDate > t THEN e.endDate ELSE t

\* A goroutine calls ExtendUserMembership(userUID, tierCode, days).
ExtendUserMembership(p, days) ==
    /\ ext[p].pc = "idle"
    /\ Format(member.endDate) < MaxEndDay
    /\ ext' = [ext EXCEPT ![p] = [IdleExt EXCEPT !.pc = "called", !.days = days]]
    /\ UNCHANGED <<clock, member,
                   sigVars, envVars, procVars, cliVars, fnVars>>

\* userDetail, err := c.GetUser(userUID); on an error the call returns.
GetUser(p, ok) ==
    /\ ext[p].pc = "called"
    /\ ext' = [ext EXCEPT ![p] =
                  IF ok THEN [@ EXCEPT !.pc = "got", !.current = member.current,
                                       !.endDate = member.endDate]
                  ELSE [@ EXCEPT !.pc = "done", !.err = "GetUser"]]
    /\ UNCHANGED <<clock, member,
                   sigVars, envVars, procVars, cliVars, fnVars>>

\* The start and end date and the request made of them.
BuildRequest(p) ==
    LET startDate == StartDate(ext[p], clock)
        endDate == AddDate(startDate, ext[p].days)
    IN  /\ ext[p].pc = "got"
        /\ ext' = [ext EXCEPT ![p] =
                      [@ EXCEPT !.pc = "built", !.now = clock,
                                !.request = [StartDate |-> Format(startDate),
                                             EndDate |-> Format(endDate)]]]
        /\ UNCHANGED <<clock, member,
                       sigVars, envVars, procVars, cliVars, fnVars>>

\* return c.SetUserMembership(userUID, request): the request is sent; a
\* server that accepts it ends the membership at some time t of the
\* requested end date.
SetUserMembership(p, ok, t) ==
    /\ ext[p].pc = "built"
    /\ Format(t) = ext[p].request.EndDate
    /\ ext' = [ext EXCEPT ![p] =
                  [@ EXCEPT !.pc = "done", !.sent = @ + 1,
                            !.err = IF ok THEN "" ELSE "SetUserMembership"]]
    /\ member' = IF ok THEN [current |-> TRUE, endDate |-> t] ELSE member
    /\ UNCHANGED <<clock,
                   sigVars, envVars, procVars, cliVars, fnVars>>

\* The calls have returned and their results are dropped.
Returned ==
    /\ \A p \in Procs : ext[p].pc \in {"idle", "done"}
    /\ \E p \in Procs : ext[p].pc = "done"
    /\ ext' = [p \in Procs |-> IdleExt]
    /\ UNCHANGED <<clock, member,
                   sigVars, envVars, procVars, cliVars, fnVars>>

\* Time passes.
Elapse ==
    /\ clock < MaxClock
    /\ clock' = clock + 1
    /\ UNCHANGED <<member, ext,
                   sigVars, envVars, procVars, cliVars, fnVars>>

NextMembership ==
    \/ \E p \in Procs, days \in 1..MaxDays : ExtendUserMembership(p, days)
    \/ \E p \in Procs, ok \in BOOLEAN : GetUser(p, ok)
    \/ \E p \in Procs : BuildRequest(p)
    \/ \E p \in Procs, ok \in BOOLEAN,
          t \in 0..(DayLen * (MaxEndDay + MaxDays + 1)) :
            SetUserMembership(p, ok, t)
    \/ Returned
    \/ Elapse

SpecMembership == InitEnvelope /\ [][NextMembership]_vars

(***************************************************************************)
(* Helper functions: the membership periods (src/webhook.go) and the       *)
(* signing input (src/webhook.md)                                          *)
(***************************************************************************)
\* The MembershipPeriodType constants.
PeriodTypes ==
    [PeriodTypeMonth |-> "month", PeriodTypeQuarter |-> "quarter",
     PeriodTypeHalfYear |-> "halfyear", PeriodTypeYear |-> "year",
     PeriodTypeTwoYear |-> "twoyear", PeriodTypeThreeYear |-> "threeyear",
     PeriodTypeFiveYear |-> "fiveyear"]

\* A table of months that knows no half year.
GetMonthsByPeriodType_NoHalfYear(periodType) ==
    CASE periodType = PeriodTypes.PeriodTypeMonth -> 1
      [] periodType = PeriodTypes.PeriodTypeQuarter -> 3
      [] periodType = PeriodTypes.PeriodTypeYear -> 12
      [] periodType = PeriodTypes.PeriodTypeTwoYear -> 24
      [] periodType = PeriodTypes.PeriodTypeThreeYear -> 36
      [] periodType = PeriodTypes.PeriodTypeFiveYear -> 60
      [] OTHER -> 0

GetMonthsByPeriodType(periodType) ==
    CASE periodType = PeriodTypes.PeriodTypeMonth -> 1
      [] periodType = PeriodTypes.PeriodTypeQuarter -> 3
      [] periodType = PeriodTypes.PeriodTypeHalfYear -> 6
      [] periodType = PeriodTypes.PeriodTypeYear -> 12
      [] periodType = PeriodTypes.PeriodTypeTwoYear -> 24
      [] periodType = PeriodTypes.PeriodTypeThreeYear -> 36
      [] periodType = PeriodTypes.PeriodTypeFiveYear -> 60
      [] OTHER -> 0

GetPeriodTypeName(periodType) ==
    CASE periodType = PeriodTypes.PeriodTypeMonth -> "Monthly"
      [] periodType = PeriodTypes.PeriodTypeQuarter -> "Quarterly"
      [] periodType = PeriodTypes.PeriodTypeHalfYear -> "Half-yearly"
      [] periodType = PeriodTypes.PeriodTypeYear -> "Yearly"
      [] periodType = PeriodTypes.PeriodTypeTwoYear -> "Two-year"
      [] periodType = PeriodTypes.PeriodTypeThreeYear -> "Three-year"
      [] periodType = PeriodTypes.PeriodTypeFiveYear -> "Five-year"
      [] OTHER -> "Unknown Period"

\* A caller asks for the months and the name of a period type.
DescribePeriod(periodType) ==
    /\ fn' = [NoFn EXCEPT !.name = "period", !.arg = periodType,
                          !.months = GetMonthsByPeriodType(periodType),
                          !.text = GetPeriodTypeName(periodType)]
    /\ UNCHANGED <<sigVars, envVars, procVars, cliVars, memVars>>

\* A sender signs two requests, a and b, under one secret.
GenerateSignatures(a, b, secret) ==
    /\ fn' = [NoFn EXCEPT
                !.name = "generateSignature",
                !.inputs = <<a, b>>,
                !.messages = <<SigningMessage(a.timestamp, a.body),
                               SigningMessage(b.timestamp, b.body)>>,
                !.signatures = <<Sign(a.timestamp, a.body, secret),
                                 Sign(b.timestamp, b.body, secret)>>]
    /\ UNCHANGED <<sigVars, envVars, procVars, cliVars, memVars>>

\* The period types are the seven constants and strings that are none of
\* them; the requests are stamped with one and two digits and a sign, and
\* their bodies begin with a digit, with '.', or with neither.
NextFunctions ==
    \/ \E periodType \in {PeriodTypes[c] : c \in DOMAIN PeriodTypes}
                           \cup {"", "week", "Month", "monthly", "lifetime"} :
            DescribePeriod(periodType)
    \/ \E a, b \in [timestamp : {0 - 1, 1, 2, 12},
                     body : {<<>>, <<"a">>, <<"2">>, <<".">>, <<"2", ".">>,
                             <<".", "2">>, <<"2", ".", "a">>}] :
            GenerateSignatures(a, b, <<"k">>)

SpecFunctions == InitEnvelope /\ [][NextFunctions]_vars

(***************************************************************************)
(* Properties                                                              *)
(***************************************************************************)
Verified == pc = "verified"

\* The age verifySignature computed: now - timestamp for a header stamped ts.
AgeAtCall(ts) == call.at - ts

\* The header is the one generateSignature makes for the body that
\* arrived, stamped ts, under the secret the receiver verifies with.
SignedForReceiver(ts) == header = BuildHeader(ts, body, call.secret)

\* C1: round trip.  A header built by BuildHeader(timestamp, body, secret)
\* and verified with the same body and secret is accepted whenever
\* now - timestamp <= maxAge.
C1_RoundTrip ==
    \A ts \in Timestamps :
        (Verified /\ SignedForReceiver(ts) /\ AgeAtCall(ts) <= call.maxAge)
            => call.err = Nil

\* An unaltered request stamped before the epoch, with a non-empty body and
\* secret, verified inside the window and accepted.
C1_Witness ==
    /\ Verified
    /\ ~edited
    /\ sent.timestamp < 0
    /\ sent.body # <<>>
    /\ call.secret = sent.secret
    /\ call.secret # <<>>
    /\ AgeAtCall(sent.timestamp) <= call.maxAge
    /\ call.err = Nil

\* C2: tamper detection.  A header built for body b, still inside the
\* window and verified under the signing secret with a body other than b,
\* is refused with SignatureMismatch.
C2_TamperDetected ==
    \A ts \in Timestamps, b \in Bodies :
        ( /\ Verified
          /\ header = BuildHeader(ts, b, call.secret)
          /\ b # body
          /\ AgeAtCall(ts) <= call.maxAge )
            => call.err = SignatureMismatch

\* A request whose one-byte body was changed to another byte in flight,
\* verified inside the window under the signing secret and refused.
C2_Witness ==
    /\ Verified
    /\ edited
    /\ header = BuildHeader(sent.timestamp, sent.body, sent.secret)
    /\ Len(sent.body) = 1
    /\ Len(body) = 1
    /\ body # sent.body
    /\ call.secret = sent.secret
    /\ AgeAtCall(sent.timestamp) <= call.maxAge
    /\ call.err = SignatureMismatch

C4_ExpiryBoundary ==
    \A ts \in Timestamps :
        (Verified /\ SignedForReceiver(ts))
            => /\ AgeAtCall(ts) = call.maxAge => call.err = Nil
               /\ AgeAtCall(ts) = call.maxAge + 1 => call.err = Expired

\* With the five-minute limit: a correctly signed request exactly 300
\* seconds old at the call, accepted.
C4_Witness ==
    /\ Verified
    /\ ~edited
    /\ call.secret = sent.secret
    /\ call.maxAge = DefaultMaxAge
    /\ AgeAtCall(sent.timestamp) = DefaultMaxAge
    /\ call.err = Nil

\* The comma-separated fields of the header that arrived.
HeaderParts == Split(header, ",")

\* Some field of the header starts with prefix.
HasField(prefix) ==
    \E i \in 1..Len(HeaderParts) : HasPrefix(HeaderParts[i], prefix)

\* Some t= field is not a decimal integer, or is the integer 0.
BadTimestamp ==
    \E i \in 1..Len(HeaderParts) :
        /\ HasPrefix(HeaderParts[i], PrefixT)
        /\ LET n == ParseInt(TrimPrefix(HeaderParts[i], PrefixT))
           IN  n.err \/ n.val = 0

\* Some sha256= field holds nothing after the prefix.
EmptySignature == \E i \in 1..Len(HeaderParts) : HeaderParts[i] = PrefixSha256

\* A header that passes the parse step as section 4.2 of the specification
\* words it: two fields, a t= and a sha256= one, the timestamp an integer
\* other than 0 and the signature not empty.
WellFormed ==
    /\ Len(HeaderParts) = 2
    /\ HasField(PrefixT)
    /\ HasField(PrefixSha256)
    /\ ~BadTimestamp
    /\ ~EmptySignature

\* The timestamp verifySignature reads from the header, and its age.
ParsedTimestamp == ParseHeader(HeaderParts).timestamp

Stale == call.at - ParsedTimestamp > call.maxAge

\* C5: malformed header rejection.  A header without a t= field, without a
\* sha256= field, or not of exactly two comma-separated fields is refused
\* with MalformedHeader, and no HMAC is computed on the way.
C5_MalformedRejected ==
    ( /\ Verified
      /\ \/ Len(HeaderParts) # 2
         \/ ~HasField(PrefixT)
         \/ ~HasField(PrefixSha256) )
        => /\ call.err = MalformedHeader
           /\ call.hmacs = 0

\* C6: a header of exactly two fields whose timestamp is not an integer or
\* is 0, or whose signature is empty, is refused with MalformedHeader.
C6_BadFieldIsMalformed ==
    ( /\ Verified
      /\ Len(HeaderParts) = 2
      /\ BadTimestamp \/ EmptySignature )
        => call.err = MalformedHeader

\* C7: the checks run in the order parse, freshness, recompute, compare and
\* the first failure is reported: a malformed header is MalformedHeader
\* even when stale, a well-formed stale header is Expired whatever its
\* signature, and SignatureMismatch is only reported for a well-formed,
\* fresh header.
C7_FirstFailureReported ==
    Verified =>
        /\ ~WellFormed => call.err = MalformedHeader
        /\ (WellFormed /\ Stale) => call.err = Expired
        /\ call.err = SignatureMismatch => (WellFormed /\ ~Stale)

\* C8: the freshness check is one-sided.  A correctly signed header whose
\* timestamp lies in the future is accepted under every maxAge >= 0.
C8_FutureAccepted ==
    \A ts \in Timestamps :
        (Verified /\ SignedForReceiver(ts) /\ AgeAtCall(ts) < 0)
            => call.err = Nil

\* A request stamped five minutes ahead of the receiver's clock, verified
\* with age limit 0 and accepted.
C8_Witness ==
    /\ Verified
    /\ ~edited
    /\ call.secret = sent.secret
    /\ call.maxAge = 0
    /\ AgeAtCall(sent.timestamp) <= 0 - (DefaultMaxAge - MaxNow)
    /\ call.err = Nil

\* d is the decimal numeral of n: digits only, after a '-' when n is
\* negative, no leading zero, of value n.
IsDecimalOf(d, n) ==
    LET ds == IF n < 0 THEN Tail(d) ELSE d
    IN  /\ d # <<>>
        /\ n < 0 => d[1] = "-"
        /\ ds # <<>>
        /\ \A i \in 1..Len(ds) : IsDigit(ds[i])
        /\ Len(ds) > 1 => ds[1] # "0"
        /\ DigitsValue(ds) = (IF n < 0 THEN 0 - n ELSE n)

\* C9: the header the sender makes is "t=" + decimal(timestamp) +
\* ",sha256=" + signature: two comma-separated fields, the timestamp first,
\* no blank anywhere, the signature being the hex HMAC-SHA256 under the
\* secret of decimal(timestamp) + "." + the body as it is.
C9_HeaderFormat ==
    (pc = "inflight" /\ ~edited) =>
        LET d == TrimPrefix(HeaderParts[1], PrefixT)
        IN  /\ Len(HeaderParts) = 2
            /\ HasPrefix(HeaderParts[1], PrefixT)
            /\ IsDecimalOf(d, sent.timestamp)
            /\ HeaderParts[2] =
                   PrefixSha256
                       \o HmacSha256Hex(sent.secret, d \o <<".">> \o sent.body)
            /\ \A i \in 1..Len(header) : header[i] # " "
            /\ body = sent.body

\* A request just sent with a timestamp of several digits, a body and a
\* secret.
C9_Witness ==
    /\ pc = "inflight"
    /\ ~edited
    /\ sent.timestamp >= 10
    /\ sent.body # <<>>
    /\ sent.secret # <<>>
    /\ header = BuildHeader(sent.timestamp, sent.body, sent.secret)

\* C10 as stated: every accepted header has the t= field first and the
\* sha256= field second, so a header with the two in reverse order is not
\* accepted.
C10_AcceptedInFixedOrder ==
    (Verified /\ call.err = Nil) =>
        /\ Len(HeaderParts) = 2
        /\ HasPrefix(HeaderParts[1], PrefixT)
        /\ HasPrefix(HeaderParts[2], PrefixSha256)

\* The header generateSignature makes, its two fields in reverse order.
ReversedHeader(ts, b, s) ==
    PrefixSha256 \o Sign(ts, b, s) \o <<",">> \o PrefixT \o FormatInt(ts)

\* C10, amended: every accepted header has exactly two comma-separated
\* fields, one of them a sha256= field with a signature in it; the order of
\* the fields is not fixed: a correctly signed header inside the window is
\* accepted with its two fields in reverse order too.
C10_AcceptedHasTwoFields ==
    /\ (Verified /\ call.err = Nil) =>
           /\ Len(HeaderParts) = 2
           /\ \E i \in 1..2 :
                  /\ HasPrefix(HeaderParts[i], PrefixSha256)
                  /\ HeaderParts[i] # PrefixSha256
    /\ \A ts \in Timestamps :
           ( /\ Verified
             /\ header = ReversedHeader(ts, body, call.secret)
             /\ AgeAtCall(ts) <= call.maxAge )
               => call.err = Nil

\* A request whose header fields changed places in flight, verified inside
\* the window under the signing secret and accepted.
C10_Witness ==
    /\ Verified
    /\ edited
    /\ header = ReversedHeader(sent.timestamp, sent.body, sent.secret)
    /\ body = sent.body
    /\ sent.timestamp > 0
    /\ call.secret = sent.secret
    /\ call.err = Nil

\* C11: every accepted header satisfies the SignedHeader invariant: the
\* timestamp read from it is > 0 and the signature read from it is not
\* empty.
C11_AcceptedTimestampPositive ==
    (Verified /\ call.err = Nil) =>
        /\ ParsedTimestamp > 0
        /\ ParseHeader(HeaderParts).signature # <<>>

\* C14: the empty secret is not rejected.  The sender gets a header with a
\* signature in it, the receiver accepts that header with the empty secret
\* and the same body inside the window, and no call ends in an error other
\* than the three of verifySignature.
C14_EmptySecretAccepted ==
    /\ (pc = "inflight" /\ ~edited /\ sent.secret = <<>>) =>
           /\ Len(HeaderParts) = 2
           /\ HasPrefix(HeaderParts[2], PrefixSha256)
           /\ HeaderParts[2] # PrefixSha256
    /\ \A ts \in Timestamps :
           ( /\ Verified
             /\ call.secret = <<>>
             /\ header = BuildHeader(ts, body, <<>>)
             /\ AgeAtCall(ts) <= call.maxAge )
               => call.err = Nil
    /\ Verified =>
           call.err \in {Nil, MalformedHeader, Expired, SignatureMismatch}

\* An unaltered request signed with the empty secret, verified with the
\* empty secret inside the window and accepted.
C14_Witness ==
    /\ Verified
    /\ ~edited
    /\ sent.secret = <<>>
    /\ call.secret = <<>>
    /\ sent.body # <<>>
    /\ AgeAtCall(sent.timestamp) <= call.maxAge
    /\ call.err = Nil

\* C13: verification errors are terminal.  The clock never runs backwards,
\* so once verifySignature has refused a request, every later call on the
\* same header and body with the same secret and age limit refuses it too.
C13_FailureIsTerminal ==
    ( /\ pc \in {"verified", "responded"}
      /\ prev.err \notin {"", Nil}
      /\ call.secret = prev.secret
      /\ call.maxAge = prev.maxAge )
        => call.err # Nil

\* A request refused for its signature, delivered again after the clock
\* moved on and refused again, this time for its age.
C13_Witness ==
    /\ pc = "verified"
    /\ prev.err = SignatureMismatch
    /\ call.secret = prev.secret
    /\ call.maxAge = prev.maxAge
    /\ call.err = Expired

\* The status the error-handling table gives for an outcome.
DocumentedStatus(err) ==
    CASE err = Nil -> StatusOK
      [] err = MalformedHeader -> StatusBadRequest
      [] err = SignatureMismatch -> StatusUnauthorized
      [] err = Expired -> StatusRequestTimeout

\* C16: handleWebhook maps each outcome to its own status: 200 only for a
\* valid signature and a processed event, 400 for a malformed header, 401
\* for a signature mismatch, 408 for an expired timestamp.
C16_StatusPerOutcome ==
    pc = "responded" =>
        /\ resp.status = DocumentedStatus(call.err)
        /\ resp.status = StatusOK => resp.processed

\* C15: a handler processes an event only after verifySignature accepted
\* the request: whenever an event was processed, the signature check of
\* that request was made and returned no error.
C15_ProcessedOnlyAfterVerify == resp.processed => call.err = Nil

\* The body was decoded, by the caller or by the handler.
Decoded == epc \in {"decoded", "failed", "handled"}

\* The body is a JSON object.
IsObject == doc.syntax = "ok" /\ doc.value.k = "obj"

\* The members of the body that name an envelope field.
EnvelopeMembers == DOMAIN WebhookEventData \cap DOMAIN doc.value.f

\* Every member of the body that names an envelope field, event_type
\* aside, holds a value the field can store.
OtherMembersFit ==
    \A name \in EnvelopeMembers \ {"event_type"} :
        Fits(doc.value.f[name], WebhookEventData[name])

\* C17: forward compatibility.  Decoding an envelope whose event_type is a
\* string outside the WebhookEventType constants succeeds and yields that
\* string as EventType; the outer decode never fails for an unknown type.
C17_UnknownTypeDecodes ==
    ( /\ Decoded
      /\ IsObject
      /\ "event_type" \in EnvelopeMembers
      /\ doc.value.f["event_type"].k = "str"
      /\ doc.value.f["event_type"].s \notin WebhookEventTypes
      /\ OtherMembersFit )
        => /\ derr = Nil
           /\ event.EventType = doc.value.f["event_type"].s

\* An envelope of an undeclared type, with an order payload, decoded.
C17_Witness ==
    /\ epc = "decoded"
    /\ derr = Nil
    /\ event.EventType = "refund.created"
    /\ event.EventType \notin WebhookEventTypes
    /\ event.Data = OrderPaidWire

\* C18: Parse never modifies the envelope.  After any number of Parse
\* calls, failed or not, the envelope is the one that was decoded, and the
\* last call returned what Parse returns on the envelope as decoded.
C18_ParseKeepsEnvelope ==
    (epc = "decoded" /\ parse.shape # "") =>
        LET w == DecodeEnvelope(doc).event
        IN  /\ event = w
            /\ parse.err = Parse(w, parse.shape).err
            /\ parse.out = Parse(w, parse.shape).out

\* An order.paid envelope on which a Parse failed, parsed afterwards into
\* WebhookOrderPaidData without error, order number and amount as sent.
C18_Witness ==
    /\ epc = "decoded"
    /\ parse.failed
    /\ event.EventType = WebhookEventOrderPaid
    /\ parse.shape = ShapeOf(event.EventType)
    /\ parse.err = Nil
    /\ parse.out["wordgate_order_no"] = JStr("ORDER123")
    /\ parse.out["amount"] = JNum(9900)

Parsed ==
    /\ epc = "decoded"
    /\ parse.shape # ""
    /\ event.EventType \in WebhookEventTypes

\* C20 as stated: Parse returns an error whenever the destination is not
\* the struct that belongs to the envelope's event type.
C20_WrongShapeFails ==
    (Parsed /\ parse.shape # ShapeOf(event.EventType)) => parse.err # Nil

\* The members of the data that name a field of the destination.
TargetMembers == DOMAIN PayloadShapes[parse.shape] \cap DOMAIN event.Data.f

\* C20, amended: Parse does not compare the destination with the event
\* type.  It returns an error exactly when the data is JSON other than
\* null or an object, or a member of the data holds a value that the
\* destination field of the same name cannot store; members the
\* destination has no field for are skipped, fields the data has no member
\* for are zero.
C20_ParseFailsOnTypeOnly ==
    Parsed =>
        /\ parse.err # Nil <=>
               \/ event.Data.k \notin {"null", "obj"}
               \/ \E name \in TargetMembers :
                      ~Fits(event.Data.f[name],
                            PayloadShapes[parse.shape][name])
        /\ parse.err = Nil =>
               \A name \in DOMAIN PayloadShapes[parse.shape] :
                   parse.out[name] =
                       IF name \in TargetMembers /\ event.Data.f[name].k # "null"
                       THEN event.Data.f[name]
                       ELSE Zero(PayloadShapes[parse.shape][name])

\* The data of an order.paid event parsed into WebhookOrderCancelledData
\* without error: order number and amount as sent, no reason.
C20_Witness ==
    /\ Parsed
    /\ event.EventType = WebhookEventOrderPaid
    /\ event.Data = OrderPaidWire
    /\ parse.shape = "WebhookOrderCancelledData"
    /\ parse.err = Nil
    /\ parse.out["wordgate_order_no"] = JStr("ORDER123")
    /\ parse.out["amount"] = JNum(9900)
    /\ parse.out["reason"] = JStr("")

\* The data member of the body, as sent.
WireData == doc.value.f["data"]

\* C21: envelope dispatch round trip.  Decoding an envelope and parsing
\* its data into the struct that belongs to its event type yields, for
\* every field the data has a member for, exactly the value sent on the
\* wire, and the zero value for every other field.
C21_DispatchRoundTrip ==
    ( /\ Parsed
      /\ parse.shape = ShapeOf(event.EventType)
      /\ parse.err = Nil
      /\ IsObject
      /\ "data" \in EnvelopeMembers
      /\ WireData.k = "obj" )
        => \A name \in DOMAIN PayloadShapes[parse.shape] :
               parse.out[name] =
                   IF name \in DOMAIN WireData.f /\ WireData.f[name].k # "null"
                   THEN WireData.f[name]
                   ELSE Zero(PayloadShapes[parse.shape][name])

\* What a finished call returns when it runs alone.
AloneResult(c) ==
    CASE c.kind = "sign" ->
             [NoResult EXCEPT !.err = Nil,
                  !.value = BuildHeader(c.in.timestamp, c.in.body, c.in.secret)]
      [] c.kind = "verify" ->
             [NoResult EXCEPT !.err =
                  VerifySignature(c.in.header, c.in.body, c.in.secret,
                                  DefaultMaxAge, now).err]
      [] c.kind = "parse" ->
             [NoResult EXCEPT !.err = Parse(c.in.w, c.in.shape).err,
                              !.out = Parse(c.in.w, c.in.shape).out]

\* C22: generateSignature, verifySignature and Parse share no mutable
\* state.  Whatever the interleaving of the calls of the goroutines, each
\* call returns what it returns when it runs alone.
C22_CallsDoNotInterfere ==
    \A p \in Procs :
        calls[p].pc = "done" => calls[p].res = AloneResult(calls[p])

\* A verification under one secret that ran while the other goroutine was
\* signing under another secret, and accepted its header.
C22_Witness ==
    /\ calls[1].pc = "done"
    /\ calls[1].kind = "verify"
    /\ calls[1].overlap
    /\ calls[1].res.err = Nil
    /\ calls[2].kind = "sign"
    /\ calls[2].pc = "sum"
    /\ calls[2].in.secret # calls[1].in.secret

(***************************************************************************)
(* The API client                                                          *)
(***************************************************************************)
\* The struct the method that returned decodes the data into.
ResultOf == IF outcome.method = "CreateOrder" THEN OrderResponse ELSE Product

\* The answer's body as the success envelope.
Envelope == Unmarshal(response.body, APIResponse)

\* The envelope's data is null or absent, or decodes into the result.
DataDecodes ==
    \/ Envelope.out.data.k = "null"
    \/ Unmarshal([syntax |-> "ok", value |-> Envelope.out.data],
                 ResultOf).err = Nil

\* C23: when the server reports an API error (a non-200 answer with a JSON
\* error body, or a 200 answer whose code is not 0), the error a public
\* method such as CreateOrder or CreateProduct returns is itself an
\* APIError with the server's code and message, so that the type
\* assertion err.(wordgate.APIError) succeeds.
C23_MethodReturnsAPIError ==
    (apc = "returned" /\ outcome.err.type = "APIError")
        => /\ outcome.reterr.type = "APIError"
           /\ outcome.reterr.code = outcome.err.code
           /\ outcome.reterr.message = outcome.err.message

\* C26: requestJSON returns nil exactly when the status is 200, the body
\* parses as the envelope, its code is 0 and its data, when there is any,
\* decodes into the result.  The checks are made in that order: an answer
\* that is not 200 is an APIError or an HTTP error whatever code its body
\* has, a 200 body that does not parse is a parse error, and a 200
\* envelope with a code other than 0 is APIError{code, msg} whatever its
\* data.
C26_RequestJSONOutcome ==
    (apc = "returned" /\ response.transport = "ok")
        => /\ outcome.err = NoErr
                <=> /\ response.status = StatusOK
                    /\ Envelope.err = Nil
                    /\ Envelope.out.code.n = 0
                    /\ DataDecodes
           /\ response.status # StatusOK
                => outcome.err.type \in {"APIError", "*errors.errorString"}
           /\ (response.status = StatusOK /\ Envelope.err # Nil)
                => outcome.err.text = "failed to parse API response"
           /\ (response.status = StatusOK /\ Envelope.err = Nil
                 /\ Envelope.out.code.n # 0)
                => outcome.err = APIErrorValue(Envelope.out.code.n,
                                               Envelope.out.msg.s)

\* A 200 envelope with a negative code and data that would not decode was
\* answered with the APIError of its code.
C26_Witness ==
    /\ apc = "returned"
    /\ response.status = StatusOK
    /\ Envelope.err = Nil
    /\ Envelope.out.code.n < 0
    /\ ~DataDecodes
    /\ outcome.err.type = "APIError"

\* C27: a method that returns (*T, error) returns a nil pointer exactly
\* when it returns an error, and a pointer to what requestJSON decoded
\* otherwise; what a failed decode left in the result is not handed out.
C27_PointerNilIffError ==
    apc = "returned"
        => /\ outcome.ptr.isNil <=> outcome.reterr # NoErr
           /\ outcome.ptr.isNil => outcome.ptr.value = NoFields
           /\ ~outcome.ptr.isNil => outcome.ptr.value = outcome.written

\* A decode that failed after it had stored the order number, and the
\* method returned nil.
C27_Witness ==
    /\ apc = "returned"
    /\ outcome.method = "CreateOrder"
    /\ outcome.err.text = "failed to unmarshal API data"
    /\ outcome.written.order_no = JStr("ORDER123")
    /\ outcome.ptr.isNil

(***************************************************************************)
(* ExtendUserMembership                                                    *)
(***************************************************************************)
\* GetUser returned a membership that was still active when the call
\* read the time.
Active(e) == e.current /\ e.endDate > e.now

\* C24: ExtendUserMembership extends from the current end date when the
\* user has a current membership that ends after now (start = current end,
\* end = current end + days) and from now otherwise (start = now, end =
\* now + days); the requested end date is never earlier than now + days;
\* exactly one SetUserMembership request is sent, after GetUser succeeded,
\* and none when GetUser failed.
C24_ExtendsFromEndOrNow ==
    \A p \in Procs :
        LET e == ext[p]
        IN  /\ e.pc \in {"built", "done"} /\ e.err # "GetUser"
                => /\ Active(e)
                        => /\ e.request.StartDate = Format(e.endDate)
                           /\ e.request.EndDate = Format(e.endDate) + e.days
                   /\ ~Active(e)
                        => /\ e.request.StartDate = Format(e.now)
                           /\ e.request.EndDate = Format(e.now) + e.days
                   /\ e.request.EndDate >= Format(AddDate(e.now, e.days))
            /\ e.sent = IF e.pc = "done" /\ e.err # "GetUser" THEN 1 ELSE 0

\* One call extended a membership that was active and another one that
\* had expired, each with one request.
C24_Witness ==
    \E p, q \in Procs :
        /\ ext[p].pc = "done" /\ ext[p].sent = 1 /\ Active(ext[p])
        /\ ext[p].request.EndDate > Format(AddDate(ext[p].now, ext[p].days))
        /\ ext[q].pc = "done" /\ ext[q].sent = 1 /\ ext[q].current
        /\ ~Active(ext[q])

\* C28: two ExtendUserMembership calls for a user with an active
\* membership, of d1 and d2 days, leave the membership's end date at the
\* original end date + d1 + d2, however their GetUser and
\* SetUserMembership steps interleave.
C28_NoExtensionLost ==
    (\A p \in Procs : ext[p].pc = "done" /\ ext[p].err = "" /\ Active(ext[p]))
        => LET original == IF ext[1].endDate <= ext[2].endDate
                           THEN ext[1].endDate ELSE ext[2].endDate
           IN  Format(member.endDate)
                   = Format(original) + ext[1].days + ext[2].days

(***************************************************************************)
(* Repeated verification                                                   *)
(***************************************************************************)
\* C29: verifySignature keeps no record of what it accepted.  A header and
\* body accepted once are accepted again by a later call with the same
\* secret and age limit as long as now - timestamp <= maxAge, and refused
\* as Expired by a call after that; the clock does not run backwards, so
\* once Expired is the answer it stays the answer.
C29_AcceptedUntilExpired ==
    ( /\ pc \in {"verified", "responded"}
      /\ call.secret = prev.secret
      /\ call.maxAge = prev.maxAge )
        => /\ prev.err = Nil
                => call.err = IF call.at - ParsedTimestamp > call.maxAge
                              THEN Expired ELSE Nil
           /\ prev.err = Expired => call.err = Expired

\* A request accepted, delivered again later, and accepted again at the
\* very limit of its age.
C29_Witness ==
    /\ pc = "verified"
    /\ prev.err = Nil
    /\ call.secret = prev.secret
    /\ call.maxAge = DefaultMaxAge
    /\ prev.maxAge = DefaultMaxAge
    /\ call.at - ParsedTimestamp = DefaultMaxAge
    /\ call.err = Nil

(***************************************************************************)
(* Helper functions                                                        *)
(***************************************************************************)
\* C25: GetMonthsByPeriodType returns 1, 3, 6, 12, 24, 36, 60 for month,
\* quarter, halfyear, year, twoyear, threeyear, fiveyear and 0 for every
\* other period type, and it is positive exactly when GetPeriodTypeName
\* returns something other than "Unknown Period".
C25_MonthsByPeriodType ==
    fn.name = "period"
        => /\ fn.months = CASE fn.arg = "month" -> 1
                             [] fn.arg = "quarter" -> 3
                             [] fn.arg = "halfyear" -> 6
                             [] fn.arg = "year" -> 12
                             [] fn.arg = "twoyear" -> 24
                             [] fn.arg = "threeyear" -> 36
                             [] fn.arg = "fiveyear" -> 60
                             [] OTHER -> 0
           /\ fn.months > 0 <=> fn.text # "Unknown Period"

\* Five years are sixty months and have a name.
C25_Witness ==
    /\ fn.name = "period"
    /\ fn.arg = "fiveyear"
    /\ fn.months = 60
    /\ fn.text = "Five-year"

\* C30: the signing input is unambiguous.  Two requests that differ in
\* timestamp or body have different signing messages, also when a body
\* begins with digits or with '.', and so different signatures under one
\* secret.
C30_SigningInputInjective ==
    fn.name = "generateSignature"
        => /\ fn.messages[1] = fn.messages[2] => fn.inputs[1] = fn.inputs[2]
           /\ fn.signatures[1] = fn.signatures[2]
                => fn.inputs[1] = fn.inputs[2]

\* Timestamp 1 with body "2." and timestamp 12 with body ".": the digits
\* and dots are the same in number, the messages are not.
C30_Witness ==
    /\ fn.name = "generateSignature"
    /\ fn.inputs[1] = [timestamp |-> 1, body |-> <<"2", ".">>]
    /\ fn.inputs[2] = [timestamp |-> 12, body |-> <<".">>]
    /\ fn.messages[1] # fn.messages[2]
    /\ fn.signatures[1] # fn.signatures[2]

=============================================================================
